---- MODULE Spec2Model ----
(***************************************************************************)
(* Model of .github/matrix.py, the generator of the CI build matrix.       *)
(*                                                                         *)
(* The script is a straight-line program: every top-level statement (or    *)
(* loop iteration) is one action, sequenced by pc.  Python strings are TLA+ *)
(* strings, handled character by character (substring test, replace,       *)
(* lower, code-point comparison, slicing, re.split), so that the string    *)
(* conditions of the script are computed and not assumed.  A Python dict   *)
(* is a sequence of <<key, value>> pairs in insertion order.               *)
(***************************************************************************)
EXTENDS Integers, Sequences, FiniteSets, TLC

VARIABLES
    argv,            \* sys.argv
    environ,         \* os.environ, a function from the variables that are set
    files,           \* the file system: path -> [writable, lines]
    pc,              \* position of the script
    exit_code,       \* exit status, -1 while running
    stdout,          \* what was printed to standard output, in order
    stderr,          \* what was printed to standard error, in order
    ref_name,        \* matrix.py:19
    matrix,          \* matrix.py:89
    os,              \* matrix.py:93-96, 221-224
    TARGET,          \* matrix.py:98, 226
    cc_idx,          \* position of "for CC in [...]"
    ssl_versions,    \* matrix.py:182-194
    ssl_idx,         \* position of "for ssl in ssl_versions"
    openssl_cache,   \* lru_cache state of determine_latest_openssl
    libressl_cache,  \* lru_cache state of determine_latest_libressl
    network          \* the HTTP requests sent so far, with the kind of answer

vars == <<argv, environ, files, pc, exit_code, stdout, stderr, ref_name, matrix,
          os, TARGET, cc_idx, ssl_versions, ssl_idx, openssl_cache,
          libressl_cache, network>>

(***************************************************************************)
(* Bounds of the model.                                                    *)
(***************************************************************************)
\* longest tag array answered by the tags endpoint
MaxTags == 2
\* longest directory listing answered by the LibreSSL mirror
MaxLines == 2

(***************************************************************************)
(* Python str operations.                                                  *)
(***************************************************************************)
\* The printable ASCII characters in code-point order, without the grave
\* accent (code 96), which no string of the script or of the answers holds.
CodePoints ==
    " !\"#$%&'()*+,-./0123456789:;<=>?@"
    \o "ABCDEFGHIJKLMNOPQRSTUVWXYZ" \o "[\\]^_"
    \o "abcdefghijklmnopqrstuvwxyz" \o "{|}~"

Upper == "ABCDEFGHIJKLMNOPQRSTUVWXYZ"

LowerLetters == "abcdefghijklmnopqrstuvwxyz"

\* the rank of a character in code-point order
Ord(c) == CHOOSE i \in 1..Len(CodePoints) : SubSeq(CodePoints, i, i) = c

\* sub in s
Contains(s, sub) ==
    \E i \in 0..(Len(s) - Len(sub)) : SubSeq(s, i + 1, i + Len(sub)) = sub

\* s[n:]
SliceFrom(s, n) == SubSeq(s, n + 1, Len(s))

RECURSIVE Replace(_, _, _)
\* s.replace(old, new), old not empty
Replace(s, old, new) ==
    IF Len(s) < Len(old) THEN s
    ELSE IF SubSeq(s, 1, Len(old)) = old
         THEN new \o Replace(SubSeq(s, Len(old) + 1, Len(s)), old, new)
         ELSE SubSeq(s, 1, 1) \o Replace(SubSeq(s, 2, Len(s)), old, new)

LowerChar(c) ==
    IF \E i \in 1..Len(Upper) : SubSeq(Upper, i, i) = c
    THEN LET i == CHOOSE j \in 1..Len(Upper) : SubSeq(Upper, j, j) = c
         IN SubSeq(LowerLetters, i, i)
    ELSE c

RECURSIVE Lower(_)
\* s.lower()
Lower(s) ==
    IF s = "" THEN ""
    ELSE LowerChar(SubSeq(s, 1, 1)) \o Lower(SubSeq(s, 2, Len(s)))

RECURSIVE StrGreater(_, _)
\* a > b, the comparison of str by code points
StrGreater(a, b) ==
    IF a = "" THEN FALSE
    ELSE IF b = "" THEN TRUE
    ELSE LET ca == Ord(SubSeq(a, 1, 1))
             cb == Ord(SubSeq(b, 1, 1))
         IN IF ca # cb THEN ca > cb
            ELSE StrGreater(SubSeq(a, 2, Len(a)), SubSeq(b, 2, Len(b)))

(***************************************************************************)
(* Python dict as a sequence of <<key, value>> pairs.                      *)
(***************************************************************************)
HasKey(d, k) == \E i \in 1..Len(d) : d[i][1] = k

Get(d, k) == d[CHOOSE i \in 1..Len(d) : d[i][1] = k][2]

Dict1(k, v) == << <<k, v>> >>

(***************************************************************************)
(* functools.lru_cache: entries are <<key, result>> pairs, least recently  *)
(* used first.                                                             *)
(***************************************************************************)
\* @functools.lru_cache(5)
LruMaxsize == 5

LruEmpty == [entries |-> <<>>, hits |-> 0, misses |-> 0]

\* a cache that never finds its entries
LruHasNever(cache, key) == FALSE

LruHas(cache, key) == \E i \in 1..Len(cache.entries) : cache.entries[i][1] = key

LruValue(cache, key) ==
    cache.entries[CHOOSE i \in 1..Len(cache.entries) : cache.entries[i][1] = key][2]

LruWithout(cache, key) ==
    SelectSeq(cache.entries, LAMBDA e : e[1] # key)

\* a hit makes the entry the most recently used one
LruTouch(cache, key) ==
    [entries |-> Append(LruWithout(cache, key), <<key, LruValue(cache, key)>>),
     hits    |-> cache.hits + 1,
     misses  |-> cache.misses]

\* a miss stores the result, evicting the least recently used entry when full
LruStore(cache, key, value) ==
    [entries |-> Append(IF Len(cache.entries) >= LruMaxsize
                        THEN Tail(cache.entries)
                        ELSE cache.entries,
                        <<key, value>>),
     hits    |-> cache.hits,
     misses  |-> cache.misses + 1]

\* The wrapper of a cached function.  `run` is the execution of the wrapped
\* function, used on a miss only; an exception leaves the cache as it was.
lru_cache_call(cache, key, run) ==
    IF LruHas(cache, key)
    THEN [raised |-> "", value |-> LruValue(cache, key),
          cache |-> LruTouch(cache, key), requests |-> <<>>]
    ELSE IF run.raised # ""
         THEN [raised |-> run.raised, value |-> "",
               cache |-> cache, requests |-> <<run.request>>]
         ELSE [raised |-> "", value |-> run.value,
               cache |-> LruStore(cache, key, run.value),
               requests |-> <<run.request>>]

(***************************************************************************)
(* The answers of the two endpoints.                                       *)
(***************************************************************************)
OpensslTagsUrl == "https://api.github.com/repos/openssl/openssl/tags"

LibresslListUrl == "https://cdn.openbsd.org/pub/OpenBSD/LibreSSL/"

\* Tag names the tags endpoint can list.  Release tags of OpenSSL 3 are named
\* "openssl-<version>"; releases up to 1.1.1 are named "OpenSSL_<version>".
TagNames == {"openssl-3.9.0", "openssl-3.10.0", "OpenSSL_1_1_1w"}

\* elements of a JSON array: tag objects, and an object without "name"
TagItems == {Dict1("name", n) : n \in TagNames} \cup {Dict1("commit", "0f2a4c")}

RECURSIVE SeqsUpTo(_, _)
\* the sequences over S of length at most n
SeqsUpTo(S, n) ==
    IF n = 0 THEN {<<>>}
    ELSE LET shorter == SeqsUpTo(S, n - 1)
         IN shorter \cup {Append(q, x) : q \in shorter, x \in S}

\* What urlopen(request) and the body can be:
\*   urlopen_error  urlopen raises (URLError, or HTTPError for a non-2xx status)
\*   read_error     the connection breaks while the body is read
\*   not_json       the body is not JSON
\*   json_object    the body is a JSON object such as {"message": "..."}
\*   json_array     the body is a JSON array of objects
OpensslResponses ==
    {[kind |-> k, tags |-> <<>>] :
        k \in {"urlopen_error", "read_error", "not_json", "json_object"}}
    \cup {[kind |-> "json_array", tags |-> t] : t \in SeqsUpTo(TagItems, MaxTags)}

\* Lines of the directory listing; a line is bytes, which may not be UTF-8.
ListingLines ==
    {[decodable |-> TRUE,
      text |-> "<a href=\"libressl-3.8.2.tar.gz.asc\">libressl-3.8.2.tar.gz.asc</a>\n"],
     [decodable |-> TRUE,
      text |-> "<a href=\"libressl-3.9.0.tar.gz.asc\">libressl-3.9.0.tar.gz.asc</a>\n"],
     [decodable |-> TRUE,
      text |-> "<a href=\"libressl-3.9.0.tar.gz\">libressl-3.9.0.tar.gz</a>\n"],
     [decodable |-> FALSE, text |-> ""]}

LibresslResponses ==
    {[kind |-> "urlopen_error", lines |-> <<>>]}
    \cup {[kind |-> "listing", lines |-> l] : l \in SeqsUpTo(ListingLines, MaxLines)}

\* no request is sent, so no endpoint answers
NoResponse == [kind |-> "none"]

\* whether the answer of the tags endpoint is a failed lookup: anything but
\* a JSON array whose elements all are tag objects
OpensslFailed(resp) ==
    \/ resp.kind # "json_array"
    \/ \E i \in 1..Len(resp.tags) : ~HasKey(resp.tags[i], "name")

\* what the log of requests records about an answer of the tags endpoint
OpensslAnswer(resp) ==
    IF resp.kind # "json_array" THEN resp.kind
    ELSE IF OpensslFailed(resp) THEN "not_tag_array" ELSE "tag_array"

\* what the log of requests records about an answer of the LibreSSL mirror
LibresslAnswer(resp) ==
    IF resp.kind = "urlopen_error" THEN "urlopen_error"
    ELSE IF \E i \in 1..Len(resp.lines) : ~resp.lines[i].decodable
         THEN "undecodable"
         ELSE IF \E i \in 1..Len(resp.lines) :
                    /\ Contains(resp.lines[i].text, "libressl-")
                    /\ Contains(resp.lines[i].text, ".tar.gz.asc")
              THEN "listing"
              ELSE "no_match"

(***************************************************************************)
(* The functions of the script.                                            *)
(***************************************************************************)
clean_ssl(ssl) == Lower(Replace(ssl, "_VERSION", ""))

clean_compression(compression) == Lower(Replace(compression, "USE_", ""))

get_asan_flags(cc) ==
    <<"USE_OBSOLETE_LINKER=1",
      "DEBUG_CFLAGS=\"-g -fsanitize=address\"",
      "LDFLAGS=\"-fsanitize=address\"",
      "CPU_CFLAGS.generic=\"-O1\"">>

RECURSIVE ScanTags(_, _, _)
\* the loop over the tags: the greatest name, as str, that contains
\* "openssl-"; tag["name"] raises KeyError when the object has no name
ScanTags(tags, i, latest_tag) ==
    IF i > Len(tags) THEN [raised |-> "", latest_tag |-> latest_tag]
    ELSE IF ~HasKey(tags[i], "name")
         THEN [raised |-> "KeyError", latest_tag |-> latest_tag]
         ELSE LET name == Get(tags[i], "name")
              IN ScanTags(tags, i + 1,
                          IF Contains(name, "openssl-") /\ StrGreater(name, latest_tag)
                          THEN name ELSE latest_tag)

\* One execution of the body of determine_latest_openssl, given the answer
\* of the endpoint.  Only urlopen is inside the try block.
determine_latest_openssl(ssl, env, resp) ==
    LET headers == IF "GITHUB_TOKEN" \in DOMAIN env
                   THEN Dict1("Authorization", "token " \o env["GITHUB_TOKEN"])
                   ELSE <<>>
        request == [url |-> OpensslTagsUrl, headers |-> headers,
                    answer |-> OpensslAnswer(resp)]
        scan    == ScanTags(resp.tags, 1, "")
    IN  IF resp.kind = "urlopen_error"
        THEN [raised |-> "", value |-> "OPENSSL_VERSION=failed_to_detect",
              request |-> request]
        ELSE IF resp.kind = "read_error"
        THEN [raised |-> "IncompleteRead", value |-> "", request |-> request]
        ELSE IF resp.kind = "not_json"
        THEN [raised |-> "JSONDecodeError", value |-> "", request |-> request]
        ELSE IF resp.kind = "json_object"
        THEN [raised |-> "TypeError", value |-> "", request |-> request]
        ELSE IF scan.raised # ""
        THEN [raised |-> scan.raised, value |-> "", request |-> request]
        ELSE [raised |-> "",
              value |-> "OPENSSL_VERSION=" \o SliceFrom(scan.latest_tag, 8),
              request |-> request]

\* The length of the match of the pattern "libressl-|.tar.gz.asc" at
\* position i of s, 0 when there is none.  A dot of the pattern matches
\* any character but a newline; the first alternative is tried first.
ReMatchLen(s, i) ==
    IF i + 8 <= Len(s) /\ SubSeq(s, i, i + 8) = "libressl-" THEN 9
    ELSE IF /\ i + 10 <= Len(s)
            /\ SubSeq(s, i, i) # "\n"
            /\ SubSeq(s, i + 1, i + 3) = "tar"
            /\ SubSeq(s, i + 4, i + 4) # "\n"
            /\ SubSeq(s, i + 5, i + 6) = "gz"
            /\ SubSeq(s, i + 7, i + 7) # "\n"
            /\ SubSeq(s, i + 8, i + 10) = "asc"
         THEN 11
         ELSE 0

\* the position of the leftmost match at or after `start`, 0 when none
ReSearch(s, start) ==
    IF \E i \in start..Len(s) : ReMatchLen(s, i) > 0
    THEN CHOOSE i \in start..Len(s) :
            /\ ReMatchLen(s, i) > 0
            /\ \A j \in start..(i - 1) : ReMatchLen(s, j) = 0
    ELSE 0

RECURSIVE ReSplitFrom(_, _)
ReSplitFrom(s, start) ==
    LET m == ReSearch(s, start)
    IN  IF m = 0 THEN <<SubSeq(s, start, Len(s))>>
        ELSE <<SubSeq(s, start, m - 1)>> \o ReSplitFrom(s, m + ReMatchLen(s, m))

\* re.split("libressl-|.tar.gz.asc", s)
re_split(s) == ReSplitFrom(s, 1)

RECURSIVE ScanLines(_, _, _)
\* The loop over the lines of the listing.  l is the local variable of that
\* name: <<>> while unbound, <<version>> once assigned.
ScanLines(lines, i, l) ==
    IF i > Len(lines) THEN [raised |-> "", l |-> l]
    ELSE IF ~lines[i].decodable
         THEN [raised |-> "UnicodeDecodeError", l |-> l]
         ELSE LET decoded_line == lines[i].text
              IN ScanLines(lines, i + 1,
                           IF /\ Contains(decoded_line, "libressl-")
                              /\ Contains(decoded_line, ".tar.gz.asc")
                           THEN <<re_split(decoded_line)[2]>>
                           ELSE l)

\* One execution of the body of determine_latest_libressl, given the answer
\* of the mirror.  Only urlopen is inside the try block.
determine_latest_libressl(ssl, resp) ==
    LET request == [url |-> LibresslListUrl, headers |-> <<>>,
                    answer |-> LibresslAnswer(resp)]
        scan    == ScanLines(resp.lines, 1, <<>>)
    IN  IF resp.kind = "urlopen_error"
        THEN [raised |-> "", value |-> "LIBRESSL_VERSION=failed_to_detect",
              request |-> request]
        ELSE IF scan.raised # ""
        THEN [raised |-> scan.raised, value |-> "", request |-> request]
        ELSE IF scan.l = <<>>
        THEN [raised |-> "UnboundLocalError", value |-> "", request |-> request]
        ELSE [raised |-> "", value |-> "LIBRESSL_VERSION=" \o scan.l[1],
              request |-> request]

(***************************************************************************)
(* json.dumps: a document is the rendered value with its layout.  A dict   *)
(* is rendered as its pairs, in insertion order or sorted by key.          *)
(***************************************************************************)
RECURSIVE InsertByKey(_, _)
InsertByKey(sorted, pair) ==
    IF sorted = <<>> THEN <<pair>>
    ELSE IF StrGreater(Head(sorted)[1], pair[1])
         THEN <<pair>> \o sorted
         ELSE <<Head(sorted)>> \o InsertByKey(Tail(sorted), pair)

RECURSIVE SortKeys(_)
SortKeys(d) ==
    IF d = <<>> THEN <<>>
    ELSE InsertByKey(SortKeys(SubSeq(d, 1, Len(d) - 1)), d[Len(d)])

DumpDict(d, sort_keys) == IF sort_keys THEN SortKeys(d) ELSE d

DumpList(m, sort_keys) == [i \in 1..Len(m) |-> DumpDict(m[i], sort_keys)]

\* a printed line: text followed by at most one JSON document
TextLine(text) == [text |-> text, json |-> <<>>]

\* print(json.dumps(matrix, indent=4, sort_keys=True))
StdoutMatrix(m) ==
    [text |-> "",
     json |-> <<[indent |-> <<4>>, value |-> DumpList(m, TRUE)]>>]

\* print("matrix={}".format(json.dumps({"include": matrix})), file=f)
OutputLine(m) ==
    [text |-> "matrix=",
     json |-> <<[indent |-> <<>>, value |-> Dict1("include", DumpList(m, FALSE))]>>]

\* open(path, "w"): the line replaces the content
OverwriteFile(fs, path, line) ==
    [fs EXCEPT ![path].lines = <<line>>]

\* open(path, "a") followed by one print: the line goes after the content
AppendToFile(fs, path, line) ==
    [fs EXCEPT ![path].lines = Append(@, line)]

(***************************************************************************)
(* The literals of the script.                                             *)
(***************************************************************************)
\* len(sys.argv) >= 2
ArgsOkAtLeast(args) == Len(args) >= 2

\* len(sys.argv) == 2
ArgsOk(args) == Len(args) = 2

\* ref_name.startswith("haproxy-")
IsStablePrefix(ref) == Len(ref) >= 8 /\ SubSeq(ref, 1, 8) = "haproxy-"

\* "haproxy-" in ref_name
IsStable(ref) == Contains(ref, "haproxy-")

LinuxOs(ref) == IF IsStable(ref) THEN "ubuntu-22.04" ELSE "ubuntu-latest"

\* the image of the development branch on every branch
MacOsAlwaysLatest(ref) == "macos-latest"

MacOs(ref) == IF IsStable(ref) THEN "macos-12" ELSE "macos-latest"

LinuxCompilers == <<"gcc", "clang">>

MacCompilers == <<"clang">>

Compressions == <<"USE_ZLIB=1">>

AllFeaturesFlags ==
    <<"USE_ZLIB=1",
      "USE_OT=1",
      "OT_INC=${HOME}/opt-ot/include",
      "OT_LIB=${HOME}/opt-ot/lib",
      "OT_RUNPATH=1",
      "USE_PCRE=1",
      "USE_PCRE_JIT=1",
      "USE_LUA=1",
      "USE_OPENSSL=1",
      "USE_SYSTEMD=1",
      "USE_WURFL=1",
      "WURFL_INC=addons/wurfl/dummy",
      "WURFL_LIB=addons/wurfl/dummy",
      "USE_DEVICEATLAS=1",
      "DEVICEATLAS_SRC=addons/deviceatlas/dummy",
      "USE_PROMEX=1",
      "USE_51DEGREES=1",
      "51DEGREES_SRC=addons/51degrees/dummy/pattern">>

\* the list with the BoringSSL marker of line 187 enabled
BaseSslVersionsWithBoringssl ==
    <<"stock", "OPENSSL_VERSION=1.0.2u", "OPENSSL_VERSION=1.1.1s", "QUICTLS=yes",
      "BORINGSSL=yes">>

BaseSslVersions ==
    <<"stock", "OPENSSL_VERSION=1.0.2u", "OPENSSL_VERSION=1.1.1s", "QUICTLS=yes">>

LatestSslVersions == <<"OPENSSL_VERSION=latest", "LIBRESSL_VERSION=latest">>

SslVersionsFor(ref) ==
    IF ~IsStable(ref) THEN BaseSslVersions \o LatestSslVersions
    ELSE BaseSslVersions

\* the flags without QUIC for the LibreSSL markers
SslFlagsNoLibresslQuic(ssl) ==
    <<"USE_OPENSSL=1">>
    \o (IF ssl = "BORINGSSL=yes" \/ ssl = "QUICTLS=yes"
        THEN <<"USE_QUIC=1">> ELSE <<>>)
    \o (IF ssl # "stock"
        THEN <<"SSL_LIB=${HOME}/opt/lib", "SSL_INC=${HOME}/opt/include">>
        ELSE <<>>)

\* the flags of one TLS entry, built from the marker of the list
SslFlags(ssl) ==
    <<"USE_OPENSSL=1">>
    \o (IF ssl = "BORINGSSL=yes" \/ ssl = "QUICTLS=yes" \/ Contains(ssl, "LIBRESSL")
        THEN <<"USE_QUIC=1">> ELSE <<>>)
    \o (IF ssl # "stock"
        THEN <<"SSL_LIB=${HOME}/opt/lib", "SSL_INC=${HOME}/opt/include">>
        ELSE <<>>)

NeedsLibressl(ssl) == Contains(ssl, "LIBRESSL") /\ Contains(ssl, "latest")

\* the test of line 205 with the wrong case for "latest"
NeedsOpensslWrongCase(ssl) == Contains(ssl, "OPENSSL") /\ Contains(ssl, "LATEST")

NeedsOpenssl(ssl) == Contains(ssl, "OPENSSL") /\ Contains(ssl, "latest")

Entry(name, o, target, cc, flags) ==
    <<<<"name", name>>, <<"os", o>>, <<"TARGET", target>>, <<"CC", cc>>,
      <<"FLAGS", flags>>>>

SslEntry(name, o, target, cc, ssl, flags) ==
    <<<<"name", name>>, <<"os", o>>, <<"TARGET", target>>, <<"CC", cc>>,
      <<"ssl", ssl>>, <<"FLAGS", flags>>>>

UsageLine(args) == TextLine("Usage: " \o args[1] \o " <ref_name>")

BannerLine(ref) == TextLine("Generating matrix for branch '" \o ref \o "'.")

\* what the interpreter prints when an exception reaches the top level
Traceback(function, exception) ==
    TextLine("Traceback (most recent call last): " \o function \o ": " \o exception)

(***************************************************************************)
(* The environments of a run.                                              *)
(***************************************************************************)
ScriptName == ".github/matrix.py"

RefNames == {"haproxy-2.8", "my-haproxy-2.8-fix", "master", "haproxy"}

ArgvChoices ==
    {<<ScriptName>>}
    \cup {<<ScriptName, r>> : r \in RefNames}
    \cup {<<ScriptName, "master", "haproxy-2.8">>}

WritablePath == "/runner/github_output"

ReadOnlyPath == "/nonexistent/github_output"

EnvChoices ==
    LET tokens  == {<<>>, <<"GITHUB_TOKEN">>}
        outputs == {<<>>, <<WritablePath>>, <<ReadOnlyPath>>}
    IN  {[k \in {x \in {"GITHUB_TOKEN", "GITHUB_OUTPUT"} :
                    \/ x = "GITHUB_TOKEN" /\ t # <<>>
                    \/ x = "GITHUB_OUTPUT" /\ o # <<>>}
            |-> IF k = "GITHUB_TOKEN" THEN "ghs_16C7e42F292c" ELSE o[1]] :
         t \in tokens, o \in outputs}

FileChoices ==
    {[p \in {WritablePath, ReadOnlyPath} |->
        [writable |-> (p = WritablePath),
         lines    |-> IF p = WritablePath THEN l ELSE <<>>]] :
     l \in {<<>>, <<TextLine("sha=0f2a4c")>>}}

(***************************************************************************)
(* The script.                                                             *)
(***************************************************************************)
Init ==
    /\ argv \in ArgvChoices
    /\ environ \in EnvChoices
    /\ files \in FileChoices
    /\ pc = "start"
    /\ exit_code = -1
    /\ stdout = <<>>
    /\ stderr = <<>>
    /\ ref_name = ""
    /\ matrix = <<>>
    /\ os = ""
    /\ TARGET = ""
    /\ cc_idx = 1
    /\ ssl_versions = <<>>
    /\ ssl_idx = 1
    /\ openssl_cache = LruEmpty
    /\ libressl_cache = LruEmpty
    /\ network = <<>>

\* the compiler of the running iteration of the Linux loop
CC == LinuxCompilers[cc_idx]

\* matrix.py:18-22
CheckArgs ==
    /\ pc = "start"
    /\ IF ArgsOk(argv)
       THEN /\ ref_name' = argv[2]
            /\ pc' = "banner"
            /\ UNCHANGED <<stderr, exit_code>>
       ELSE /\ stderr' = Append(stderr, UsageLine(argv))
            /\ exit_code' = 1
            /\ pc' = "done"
            /\ UNCHANGED ref_name
    /\ UNCHANGED <<argv, environ, files, stdout, matrix, os, TARGET, cc_idx,
                   ssl_versions, ssl_idx, openssl_cache, libressl_cache, network>>

\* matrix.py:32
PrintBanner ==
    /\ pc = "banner"
    /\ stdout' = Append(stdout, BannerLine(ref_name))
    /\ pc' = "linux_os"
    /\ UNCHANGED <<argv, environ, files, exit_code, stderr, ref_name, matrix, os,
                   TARGET, cc_idx, ssl_versions, ssl_idx, openssl_cache,
                   libressl_cache, network>>

\* matrix.py:89-99
SelectLinuxOs ==
    /\ pc = "linux_os"
    /\ matrix' = <<>>
    /\ os' = LinuxOs(ref_name)
    /\ TARGET' = "linux-glibc"
    /\ cc_idx' = 1
    /\ pc' = "no_features"
    /\ UNCHANGED <<argv, environ, files, exit_code, stdout, stderr, ref_name,
                   ssl_versions, ssl_idx, openssl_cache, libressl_cache, network>>

\* matrix.py:100-108
AppendNoFeatures ==
    /\ pc = "no_features"
    /\ matrix' = Append(matrix,
                        Entry(os \o ", " \o CC \o ", no features", os, TARGET, CC, <<>>))
    /\ pc' = "all_features"
    /\ UNCHANGED <<argv, environ, files, exit_code, stdout, stderr, ref_name, os,
                   TARGET, cc_idx, ssl_versions, ssl_idx, openssl_cache,
                   libressl_cache, network>>

\* matrix.py:110-137
AppendAllFeatures ==
    /\ pc = "all_features"
    /\ matrix' = Append(matrix,
                        Entry(os \o ", " \o CC \o ", all features", os, TARGET, CC,
                              AllFeaturesFlags))
    /\ pc' = "asan"
    /\ UNCHANGED <<argv, environ, files, exit_code, stdout, stderr, ref_name, os,
                   TARGET, cc_idx, ssl_versions, ssl_idx, openssl_cache,
                   libressl_cache, network>>

\* matrix.py:141-169
AppendAsan ==
    /\ pc = "asan"
    /\ matrix' = Append(matrix,
                        Entry(os \o ", " \o CC \o ", ASAN, all features", os, TARGET, CC,
                              get_asan_flags(CC) \o AllFeaturesFlags))
    /\ pc' = "compression"
    /\ UNCHANGED <<argv, environ, files, exit_code, stdout, stderr, ref_name, os,
                   TARGET, cc_idx, ssl_versions, ssl_idx, openssl_cache,
                   libressl_cache, network>>

\* matrix.py:171-180, the whole loop over the compression flags
AppendCompression ==
    /\ pc = "compression"
    /\ matrix' = matrix \o
            [i \in 1..Len(Compressions) |->
                Entry(os \o ", " \o CC \o ", gz=" \o clean_compression(Compressions[i]),
                      os, TARGET, CC, <<Compressions[i]>>)]
    /\ pc' = "ssl_versions"
    /\ UNCHANGED <<argv, environ, files, exit_code, stdout, stderr, ref_name, os,
                   TARGET, cc_idx, ssl_versions, ssl_idx, openssl_cache,
                   libressl_cache, network>>

\* matrix.py:182-194
BuildSslVersions ==
    /\ pc = "ssl_versions"
    /\ ssl_versions' = SslVersionsFor(ref_name)
    /\ ssl_idx' = 1
    /\ pc' = "ssl_loop"
    /\ UNCHANGED <<argv, environ, files, exit_code, stdout, stderr, ref_name, matrix,
                   os, TARGET, cc_idx, openssl_cache, libressl_cache, network>>

\* matrix.py:196-217, one iteration of the loop over ssl_versions, the calls
\* of the two cached functions included.  An endpoint answers only when the
\* call is not served from the cache.  An exception of a call ends the run
\* with a traceback and exit status 1.
SslIteration ==
    /\ pc = "ssl_loop"
    /\ ssl_idx <= Len(ssl_versions)
    /\ LET marker == ssl_versions[ssl_idx]
           flags  == SslFlags(marker)
       IN \E lresp \in IF NeedsLibressl(marker) /\ ~LruHas(libressl_cache, marker)
                       THEN LibresslResponses ELSE {NoResponse} :
            LET lcall == IF NeedsLibressl(marker)
                         THEN lru_cache_call(libressl_cache, marker,
                                  determine_latest_libressl(marker, lresp))
                         ELSE [raised |-> "", value |-> marker,
                               cache |-> libressl_cache, requests |-> <<>>]
                ssl1  == lcall.value
                ocalled == lcall.raised = "" /\ NeedsOpenssl(ssl1)
            IN \E oresp \in IF ocalled /\ ~LruHas(openssl_cache, ssl1)
                            THEN OpensslResponses ELSE {NoResponse} :
                LET ocall == IF ocalled
                             THEN lru_cache_call(openssl_cache, ssl1,
                                      determine_latest_openssl(ssl1, environ, oresp))
                             ELSE [raised |-> "", value |-> ssl1,
                                   cache |-> openssl_cache, requests |-> <<>>]
                    ssl   == ocall.value
                IN  /\ libressl_cache' = lcall.cache
                    /\ openssl_cache' = ocall.cache
                    /\ network' = network \o lcall.requests \o ocall.requests
                    /\ IF lcall.raised # ""
                       THEN /\ stderr' = Append(stderr,
                                    Traceback("determine_latest_libressl", lcall.raised))
                            /\ exit_code' = 1
                            /\ pc' = "done"
                            /\ UNCHANGED <<matrix, ssl_idx>>
                       ELSE IF ocall.raised # ""
                       THEN /\ stderr' = Append(stderr,
                                    Traceback("determine_latest_openssl", ocall.raised))
                            /\ exit_code' = 1
                            /\ pc' = "done"
                            /\ UNCHANGED <<matrix, ssl_idx>>
                       ELSE /\ matrix' = Append(matrix,
                                    SslEntry(os \o ", " \o CC \o ", ssl=" \o clean_ssl(ssl),
                                             os, TARGET, CC, ssl, flags))
                            /\ ssl_idx' = ssl_idx + 1
                            /\ pc' = "ssl_loop"
                            /\ UNCHANGED <<stderr, exit_code>>
    /\ UNCHANGED <<argv, environ, files, stdout, ref_name, os, TARGET, cc_idx,
                   ssl_versions>>

\* the end of the loop over ssl_versions, and the next compiler of line 99
SslLoopEnd ==
    /\ pc = "ssl_loop"
    /\ ssl_idx > Len(ssl_versions)
    /\ IF cc_idx < Len(LinuxCompilers)
       THEN cc_idx' = cc_idx + 1 /\ pc' = "no_features"
       ELSE cc_idx' = cc_idx /\ pc' = "macos_os"
    /\ UNCHANGED <<argv, environ, files, exit_code, stdout, stderr, ref_name, matrix,
                   os, TARGET, ssl_versions, ssl_idx, openssl_cache, libressl_cache,
                   network>>

\* matrix.py:221-226
SelectMacOs ==
    /\ pc = "macos_os"
    /\ os' = MacOs(ref_name)
    /\ TARGET' = "osx"
    /\ pc' = "macos_loop"
    /\ UNCHANGED <<argv, environ, files, exit_code, stdout, stderr, ref_name, matrix,
                   cc_idx, ssl_versions, ssl_idx, openssl_cache, libressl_cache,
                   network>>

\* matrix.py:227-236, the whole loop over the macOS compilers
AppendMacOs ==
    /\ pc = "macos_loop"
    /\ matrix' = matrix \o
            [i \in 1..Len(MacCompilers) |->
                Entry(os \o ", " \o MacCompilers[i] \o ", no features",
                      os, TARGET, MacCompilers[i], <<>>)]
    /\ pc' = "print"
    /\ UNCHANGED <<argv, environ, files, exit_code, stdout, stderr, ref_name, os,
                   TARGET, cc_idx, ssl_versions, ssl_idx, openssl_cache,
                   libressl_cache, network>>

\* matrix.py:240
PrintMatrix ==
    /\ pc = "print"
    /\ stdout' = Append(stdout, StdoutMatrix(matrix))
    /\ pc' = "output"
    /\ UNCHANGED <<argv, environ, files, exit_code, stderr, ref_name, matrix, os,
                   TARGET, cc_idx, ssl_versions, ssl_idx, openssl_cache,
                   libressl_cache, network>>

\* matrix.py:242-244 and the end of the script
WriteGithubOutput ==
    /\ pc = "output"
    /\ IF "GITHUB_OUTPUT" \notin DOMAIN environ
       THEN /\ exit_code' = 0
            /\ UNCHANGED <<files, stderr>>
       ELSE IF files[environ["GITHUB_OUTPUT"]].writable
       THEN /\ files' = AppendToFile(files, environ["GITHUB_OUTPUT"], OutputLine(matrix))
            /\ exit_code' = 0
            /\ UNCHANGED stderr
       ELSE /\ stderr' = Append(stderr, Traceback("open", "FileNotFoundError"))
            /\ exit_code' = 1
            /\ UNCHANGED files
    /\ pc' = "done"
    /\ UNCHANGED <<argv, environ, stdout, ref_name, matrix, os, TARGET, cc_idx,
                   ssl_versions, ssl_idx, openssl_cache, libressl_cache, network>>

Next ==
    \/ CheckArgs
    \/ PrintBanner
    \/ SelectLinuxOs
    \/ AppendNoFeatures
    \/ AppendAllFeatures
    \/ AppendAsan
    \/ AppendCompression
    \/ BuildSslVersions
    \/ SslIteration
    \/ SslLoopEnd
    \/ SelectMacOs
    \/ AppendMacOs
    \/ PrintMatrix
    \/ WriteGithubOutput

Spec == Init /\ [][Next]_vars

(***************************************************************************)
(* Vocabulary of the properties.                                           *)
(***************************************************************************)
StartsWith(s, prefix) ==
    Len(s) >= Len(prefix) /\ SubSeq(s, 1, Len(prefix)) = prefix

InSeq(q, x) == \E i \in 1..Len(q) : q[i] = x

\* the run ended normally
Completed == pc = "done" /\ exit_code = 0

\* an exception of the named function reached the top level
Escaped(function) ==
    \E i \in 1..Len(stderr) :
        StartsWith(stderr[i].text, "Traceback (most recent call last): " \o function)

\* the number of requests sent to a URL
Requests(url) == Cardinality({i \in 1..Len(network) : network[i].url = url})

\* the part of an entry's name after "<os>, <compiler>, "
Descriptor(e) == SliceFrom(Get(e, "name"), Len(Get(e, "os")) + Len(Get(e, "CC")) + 4)

\* the positions of the Linux entries of a compiler that satisfy P
LinuxEntries(cc, P(_)) ==
    {i \in 1..Len(matrix) :
        /\ Get(matrix[i], "TARGET") = "linux-glibc"
        /\ Get(matrix[i], "CC") = cc
        /\ P(matrix[i])}

IsNoFeatures(e) == Descriptor(e) = "no features"

IsAllFeatures(e) == Descriptor(e) = "all features"

IsAsan(e) == Descriptor(e) = "ASAN, all features"

IsGz(e) == StartsWith(Descriptor(e), "gz=zlib")

IsSsl(e) == StartsWith(Descriptor(e), "ssl=")

\* a dict as a function from its keys
AsMap(d) == [k \in {d[i][1] : i \in 1..Len(d)} |-> Get(d, k)]

AsMaps(l) == [i \in 1..Len(l) |-> AsMap(l[i])]

\* the answer to the request sent to the tags endpoint was a failed lookup
OpensslLookupFailed ==
    \E i \in 1..Len(network) :
        network[i].url = OpensslTagsUrl /\ network[i].answer # "tag_array"

\* a request was sent to the LibreSSL mirror
LibresslLookedUp ==
    \E i \in 1..Len(network) : network[i].url = LibresslListUrl

\* some entry of the matrix has this ssl field
HasSsl(value) ==
    \E i \in 1..Len(matrix) :
        HasKey(matrix[i], "ssl") /\ Get(matrix[i], "ssl") = value

(***************************************************************************)
(* Properties.                                                             *)
(***************************************************************************)

\* C1: on a development ref, whenever the lookup of the OpenSSL tags fails
\* in any way (network error, non-2xx status, or a body that is not a JSON
\* array of tag objects), determine_latest_openssl returns
\* "OPENSSL_VERSION=failed_to_detect" without raising, and a run that no
\* other failure ends exits 0 with an entry whose ssl is that sentinel.
C1_OpensslFailureAbsorbed ==
    (~Contains(ref_name, "haproxy-") /\ OpensslLookupFailed) =>
        /\ ~Escaped("determine_latest_openssl")
        /\ \E i \in 1..Len(openssl_cache.entries) :
                openssl_cache.entries[i][2] = "OPENSSL_VERSION=failed_to_detect"
        /\ (pc = "done" /\ ~Escaped("determine_latest_libressl") /\ ~Escaped("open"))
                => (exit_code = 0 /\ HasSsl("OPENSSL_VERSION=failed_to_detect"))

\* C2: no exception escapes determine_latest_libressl: whatever the mirror
\* answers, the function returns "LIBRESSL_VERSION=<version>" or the
\* sentinel "LIBRESSL_VERSION=failed_to_detect", and a run that no other
\* failure ends completes.
C2_LibresslNeverRaises ==
    LibresslLookedUp =>
        /\ ~Escaped("determine_latest_libressl")
        /\ \E i \in 1..Len(libressl_cache.entries) :
                StartsWith(libressl_cache.entries[i][2], "LIBRESSL_VERSION=")
        /\ (pc = "done" /\ ~Escaped("open")) => exit_code = 0

\* the numbers of entries of each kind that a compiler has in the matrix
KindCounts(cc) ==
    <<Cardinality(LinuxEntries(cc, IsNoFeatures)),
      Cardinality(LinuxEntries(cc, IsAllFeatures)),
      Cardinality(LinuxEntries(cc, IsAsan)),
      Cardinality(LinuxEntries(cc, IsGz)),
      Cardinality(LinuxEntries(cc, IsSsl))>>

\* C3 as stated: a completed run has, for gcc and for clang, 1 "no features",
\* 1 "all features", 1 "ASAN, all features", 1 "gz=zlib" entry and 5 "ssl="
\* entries on a stable ref, 7 on a development ref.
C3_CountsAsStated ==
    Completed =>
        \A cc \in {"gcc", "clang"} :
            KindCounts(cc) =
                <<1, 1, 1, 1, IF Contains(ref_name, "haproxy-") THEN 5 ELSE 7>>

\* C3 amended: a completed run has, for gcc and for clang, 1 "no features",
\* 1 "all features", 1 "ASAN, all features", 1 "gz=zlib=1" entry and 4 "ssl="
\* entries on a stable ref, 6 on a development ref; these are all the Linux
\* entries of the compiler.
C3_Counts ==
    Completed =>
        \A cc \in {"gcc", "clang"} :
            /\ KindCounts(cc) =
                <<1, 1, 1, 1, IF Contains(ref_name, "haproxy-") THEN 4 ELSE 6>>
            /\ \A i \in LinuxEntries(cc, IsGz) : Descriptor(matrix[i]) = "gz=zlib=1"
            /\ Cardinality(LinuxEntries(cc, LAMBDA e : TRUE)) =
                IF Contains(ref_name, "haproxy-") THEN 8 ELSE 10

C3_Witness ==
    /\ Completed
    /\ ~Contains(ref_name, "haproxy-")
    /\ Cardinality(LinuxEntries("clang", IsSsl)) = 6

\* C4: in a run, each lookup sends at most one request, although the
\* "latest" marker is met once per compiler: the second call is served from
\* the cache (a hit, no request), also when the first answer was a failure
\* that gave the sentinel.
C4_OneRequestPerLookup ==
    /\ Requests(OpensslTagsUrl) <= 1
    /\ Requests(LibresslListUrl) <= 1
    /\ openssl_cache.hits > 0 => Requests(OpensslTagsUrl) = 1
    /\ libressl_cache.hits > 0 => Requests(LibresslListUrl) = 1
    /\ Completed /\ ~Contains(ref_name, "haproxy-") =>
            openssl_cache.hits = 1 /\ libressl_cache.hits = 1

C4_Witness ==
    /\ openssl_cache.hits = 1
    /\ libressl_cache.hits = 1
    /\ Requests(OpensslTagsUrl) = 1
    /\ Requests(LibresslListUrl) = 1
    /\ Cardinality({i \in 1..Len(matrix) :
            HasKey(matrix[i], "ssl")
            /\ Get(matrix[i], "ssl") = "OPENSSL_VERSION=failed_to_detect"}) = 2
    /\ Cardinality({i \in 1..Len(matrix) :
            HasKey(matrix[i], "ssl")
            /\ Get(matrix[i], "ssl") = "LIBRESSL_VERSION=failed_to_detect"}) = 2

\* C5: on a ref that contains "haproxy-", every Linux entry has os
\* "ubuntu-22.04", the ssl field of every entry is one of the four pinned
\* markers (never a "latest" marker nor a value resolved from one), and no
\* lookup is called: no request is sent and the caches are never used.
C5_StableNeverProbesLatest ==
    Contains(ref_name, "haproxy-") =>
        /\ \A i \in 1..Len(matrix) :
            /\ Get(matrix[i], "TARGET") = "linux-glibc"
                    => Get(matrix[i], "os") = "ubuntu-22.04"
            /\ HasKey(matrix[i], "ssl") =>
                /\ Get(matrix[i], "ssl") \in
                        {"stock", "OPENSSL_VERSION=1.0.2u",
                         "OPENSSL_VERSION=1.1.1s", "QUICTLS=yes"}
                /\ ~Contains(Get(matrix[i], "name"), "latest")
                /\ ~Contains(Get(matrix[i], "name"), "failed_to_detect")
        /\ network = <<>>
        /\ openssl_cache = [entries |-> <<>>, hits |-> 0, misses |-> 0]
        /\ libressl_cache = [entries |-> <<>>, hits |-> 0, misses |-> 0]
        /\ pc = "done" => exit_code = 0 \/ Escaped("open")

C5_Witness ==
    /\ Completed
    /\ ref_name = "my-haproxy-2.8-fix"
    /\ Cardinality({i \in 1..Len(matrix) : HasKey(matrix[i], "ssl")}) = 8

\* the positions of the entries of a compiler with this ssl field
SslEntries(cc, value) ==
    LinuxEntries(cc, LAMBDA e : HasKey(e, "ssl") /\ Get(e, "ssl") = value)

\* the Linux leg is over
LinuxDone == pc \in {"macos_os", "macos_loop", "print", "output"} \/ Completed

\* C6: on a ref that does not contain "haproxy-", every Linux entry has os
\* "ubuntu-latest"; no entry keeps "OPENSSL_VERSION=latest" or
\* "LIBRESSL_VERSION=latest" in its ssl field or, cleaned, in its name; and
\* once the Linux leg is over each compiler has exactly one entry whose ssl
\* is the value the OpenSSL lookup returned and exactly one whose ssl is the
\* value the LibreSSL lookup returned.
C6_DevelopmentResolvesLatest ==
    (pc # "start" /\ ref_name # "" /\ ~Contains(ref_name, "haproxy-")) =>
        /\ \A i \in 1..Len(matrix) :
            /\ Get(matrix[i], "TARGET") = "linux-glibc"
                    => Get(matrix[i], "os") = "ubuntu-latest"
            /\ HasKey(matrix[i], "ssl") =>
                    Get(matrix[i], "ssl") \notin
                        {"OPENSSL_VERSION=latest", "LIBRESSL_VERSION=latest"}
            /\ ~Contains(Get(matrix[i], "name"), "=latest")
        /\ LinuxDone =>
            /\ Len(openssl_cache.entries) = 1
            /\ Len(libressl_cache.entries) = 1
            /\ \A cc \in {"gcc", "clang"} :
                /\ Cardinality(SslEntries(cc, openssl_cache.entries[1][2])) = 1
                /\ Cardinality(SslEntries(cc, libressl_cache.entries[1][2])) = 1

C6_Witness ==
    /\ Completed
    /\ ref_name = "haproxy"
    /\ Cardinality(SslEntries("gcc", "OPENSSL_VERSION=3.9.0")) = 1
    /\ Cardinality(SslEntries("clang", "OPENSSL_VERSION=3.9.0")) = 1
    /\ Cardinality(SslEntries("gcc", "LIBRESSL_VERSION=3.9.0")) = 1
    /\ Cardinality(SslEntries("clang", "LIBRESSL_VERSION=3.9.0")) = 1

\* no file holds a matrix line
NoMatrixLine ==
    \A p \in DOMAIN files :
        \A i \in 1..Len(files[p].lines) : files[p].lines[i].text # "matrix="

\* C7: when the script gets any number of arguments other than one, it
\* writes the usage text to standard error and exits with status 1 before
\* anything else: nothing is on standard output, no entry is built, no
\* request is sent, and no file gets a matrix line.
C7_UsageError ==
    Len(argv) # 2 =>
        /\ pc \in {"start", "done"}
        /\ stdout = <<>>
        /\ matrix = <<>>
        /\ network = <<>>
        /\ NoMatrixLine
        /\ pc = "done" =>
            /\ exit_code = 1
            /\ Len(stderr) = 1
            /\ StartsWith(stderr[1].text, "Usage: ")

C7_Witness ==
    /\ pc = "done"
    /\ Len(argv) = 3
    /\ exit_code = 1
    /\ Len(stderr) = 1

\* C8: in the step that completes a run, the whole matrix is on standard
\* output; one line matrix={"include": [...]} is appended to the file that
\* GITHUB_OUTPUT names if and only if the variable is set; the array of that
\* line has the entries of the array on standard output, in the same order;
\* and everything else in the files is as it was.
C8_OutputHandOff ==
    [][(pc' = "done" /\ exit_code' = 0) =>
        LET printed == stdout'[Len(stdout')]
        IN  /\ Len(printed.json) = 1
            /\ AsMaps(printed.json[1].value) = AsMaps(matrix)
            /\ Len(matrix) > 0
            /\ IF "GITHUB_OUTPUT" \in DOMAIN environ
               THEN LET path == environ["GITHUB_OUTPUT"]
                        old  == files[path].lines
                        new  == files'[path].lines
                    IN  /\ Len(new) = Len(old) + 1
                        /\ SubSeq(new, 1, Len(old)) = old
                        /\ new[Len(new)].text = "matrix="
                        /\ Len(new[Len(new)].json) = 1
                        /\ Len(new[Len(new)].json[1].value) = 1
                        /\ new[Len(new)].json[1].value[1][1] = "include"
                        /\ AsMaps(new[Len(new)].json[1].value[1][2])
                                = AsMaps(printed.json[1].value)
                        /\ \A p \in DOMAIN files \ {path} : files'[p] = files[p]
               ELSE /\ files' = files
                    /\ NoMatrixLine
       ]_vars

C8_Witness ==
    /\ Completed
    /\ "GITHUB_OUTPUT" \in DOMAIN environ
    /\ Len(files[environ["GITHUB_OUTPUT"]].lines) = 2
    /\ files[environ["GITHUB_OUTPUT"]].lines[1].text = "sha=0f2a4c"
    /\ files[environ["GITHUB_OUTPUT"]].lines[2].text = "matrix="

\* the macOS leg is over
MacOsDone == pc \in {"print", "output"} \/ Completed

\* C9: for every ref, the matrix has exactly one entry with TARGET "osx": it
\* is the last entry, it has CC "clang", no flags, no ssl field, the
\* descriptor "no features", and os "macos-12" when the ref contains
\* "haproxy-", "macos-latest" otherwise.
C9_MacOsEntry ==
    MacOsDone =>
        LET last == matrix[Len(matrix)]
            mac  == IF Contains(ref_name, "haproxy-") THEN "macos-12" ELSE "macos-latest"
        IN  /\ {i \in 1..Len(matrix) : Get(matrix[i], "TARGET") = "osx"} = {Len(matrix)}
            /\ Get(last, "CC") = "clang"
            /\ Get(last, "FLAGS") = <<>>
            /\ ~HasKey(last, "ssl")
            /\ Get(last, "os") = mac
            /\ Get(last, "name") = mac \o ", clang, no features"

C9_Witness ==
    /\ Completed
    /\ ref_name = "haproxy-2.8"
    /\ Get(matrix[Len(matrix)], "os") = "macos-12"

\* C10: the FLAGS of a TLS entry depend on the marker of the list only: they
\* are "USE_OPENSSL=1", then "USE_QUIC=1" exactly when the marker is the QUIC
\* marker or a LibreSSL marker, then the SSL_LIB and SSL_INC flags exactly
\* when the marker is not "stock", and nothing else; resolving a "latest"
\* marker changes the ssl and the name of the entry only; and the iteration
\* of a LibreSSL marker never calls the OpenSSL lookup.
C10_FlagsFollowMarker ==
    [][(pc = "ssl_loop" /\ ssl_idx <= Len(ssl_versions)) =>
        LET marker == ssl_versions[ssl_idx]
            quic   == marker = "QUICTLS=yes" \/ Contains(marker, "LIBRESSL")
            custom == marker # "stock"
        IN  /\ Len(matrix') = Len(matrix) + 1 =>
                LET e == matrix'[Len(matrix')]
                    f == Get(e, "FLAGS")
                IN  /\ f[1] = "USE_OPENSSL=1"
                    /\ InSeq(f, "USE_QUIC=1") <=> quic
                    /\ InSeq(f, "SSL_LIB=${HOME}/opt/lib") <=> custom
                    /\ InSeq(f, "SSL_INC=${HOME}/opt/include") <=> custom
                    /\ Len(f) = 1 + (IF quic THEN 1 ELSE 0) + (IF custom THEN 2 ELSE 0)
                    /\ ~Contains(marker, "latest") =>
                            /\ Get(e, "ssl") = marker
                            /\ UNCHANGED <<openssl_cache, libressl_cache, network>>
            /\ Contains(marker, "LIBRESSL") =>
                    /\ openssl_cache' = openssl_cache
                    /\ \A i \in 1..Len(network') : i > Len(network) =>
                            network'[i].url # "https://api.github.com/repos/openssl/openssl/tags"
       ]_vars

C10_Witness ==
    /\ pc = "ssl_loop"
    /\ Len(matrix) > 0
    /\ HasKey(matrix[Len(matrix)], "ssl")
    /\ Get(matrix[Len(matrix)], "ssl") = "LIBRESSL_VERSION=failed_to_detect"
    /\ Get(matrix[Len(matrix)], "FLAGS") =
            <<"USE_OPENSSL=1", "USE_QUIC=1", "SSL_LIB=${HOME}/opt/lib",
              "SSL_INC=${HOME}/opt/include">>

====
